---- MODULE Spec2Model ----
(***************************************************************************)
(* Model of uvgen (src/src/lib.rs): box-mapped lightmap UV generation.     *)
(*                                                                         *)
(* generate_uvs is modelled as a state machine whose steps are the stages  *)
(* of the function body: generate_uv_box, the six make_seam calls, the     *)
(* island search, the sort, one action per iteration of 'try_loop and the  *)
(* final coordinate write.                                                 *)
(*                                                                         *)
(* Numbers.  Vertex positions are integers.  Values in UV space (spacing,  *)
(* rectangle positions and sizes, texture coordinates) are fixed-point     *)
(* integers counting 1/Unit of the unit square; scale counts 1/Unit of UV  *)
(* space per unit of projected length; empiric_scale counts hundredths.    *)
(* Program indices are 0-based, TLA+ sequences 1-based: At(s, i) reads     *)
(* element i of a program vector.                                          *)
(***************************************************************************)
EXTENDS Integers, Sequences, FiniteSets, TLC

VARIABLES
    pc,              \* position inside generate_uvs
    in_vertices,     \* the `vertices` iterator argument, as collected
    in_triangles,    \* the `triangles` iterator argument, as collected
    spacing,         \* the `spacing` argument (1/Unit)
    vertices,        \* local `vertices` (grows while seams are made)
    triangles,       \* local `triangles` (rewritten while seams are made)
    uv_box,          \* Option<UvBox> returned by generate_uv_box
    face_index,      \* loop variable of `for face_index in 0..6`
    patch,           \* SurfaceDataPatch under construction
    meshes,          \* Vec<UvMesh>
    square_side,     \* local `square_side` (1/Unit)
    rects,           \* Vec<Rect>
    scale,           \* local `scale`
    empiric_scale,   \* local `empiric_scale` (hundredths)
    attempt,         \* number of 'try_loop iterations executed
    attempt_failed,  \* the last executed iteration left through `continue 'try_loop`
    result,          \* "pending", "None" or "Some": what generate_uvs returned
    normal,          \* argument of classify_plane (classifier specification)
    class            \* value returned by classify_plane (classifier specification)

vars == << pc, in_vertices, in_triangles, spacing, vertices, triangles, uv_box,
           face_index, patch, meshes, square_side, rects, scale, empiric_scale, attempt,
           attempt_failed, result, normal, class >>

(***************************************************************************)
(* Bounds of the model.                                                    *)
(***************************************************************************)
\* Largest number of input triangles.
MaxTris == 2
\* Largest number of input triangles when only the seams and islands are run.
MaxSeamTris == 3
\* Largest absolute value of a component of a normal given to the classifier.
MaxNormal == 2
\* Resolution of UV space: the unit square is Unit x Unit.
Unit == 100
\* Stand-in for f32::MAX: any value above every projected coordinate.
F32_MAX == 1000
\* empiric_scale is held at this value once it is reached (scale is 0 by then).
EmpiricCap == 1000000

(***************************************************************************)
(* Program constants.                                                      *)
(***************************************************************************)
\* `for _ in 0..100`
MaxAttempts == 100
\* `let mut empiric_scale = 1.1;` in hundredths
EmpiricInit == 110
\* `empiric_scale *= 1.33;` in hundredths
EmpiricGrowth == 133
\* `for face_index in 0..6`
FaceCount == 6

(***************************************************************************)
(* Vectors and small helpers.                                              *)
(***************************************************************************)
At(s, i) == s[i + 1]

Abs(x) == IF x < 0 THEN -x ELSE x
Min(a, b) == IF a < b THEN a ELSE b
Max(a, b) == IF a > b THEN a ELSE b

Sub3(a, b) == << a[1] - b[1], a[2] - b[2], a[3] - b[3] >>
Cross(u, v) == << u[2] * v[3] - u[3] * v[2],
                  u[3] * v[1] - u[1] * v[3],
                  u[1] * v[2] - u[2] * v[1] >>

Inf2(a, b) == << Min(a[1], b[1]), Min(a[2], b[2]) >>
Sup2(a, b) == << Max(a[1], b[1]), Max(a[2], b[2]) >>

None == [some |-> FALSE]
Some(v) == [some |-> TRUE, value |-> v]

(***************************************************************************)
(* classify_plane                                                          *)
(***************************************************************************)
classify_plane_ge(n) ==
    LET x_wins == Abs(n[1]) >= 0
        longest1 == IF x_wins THEN Abs(n[1]) ELSE 0
        class1 == IF x_wins THEN "YZ" ELSE "XY"
        y_wins == Abs(n[2]) >= longest1
        longest2 == IF y_wins THEN Abs(n[2]) ELSE longest1
        class2 == IF y_wins THEN "XZ" ELSE class1
    IN  IF Abs(n[3]) >= longest2 THEN "XY" ELSE class2

classify_plane(n) ==
    LET x_wins == Abs(n[1]) > 0
        longest1 == IF x_wins THEN Abs(n[1]) ELSE 0
        class1 == IF x_wins THEN "YZ" ELSE "XY"
        y_wins == Abs(n[2]) > longest1
        longest2 == IF y_wins THEN Abs(n[2]) ELSE longest1
        class2 == IF y_wins THEN "XZ" ELSE class1
    IN  IF Abs(n[3]) > longest2 THEN "XY" ELSE class2

(***************************************************************************)
(* UvBox and generate_uv_box.  The six buckets hold triangle indices.      *)
(***************************************************************************)
UvBoxDefault == [px |-> << >>, nx |-> << >>, py |-> << >>, ny |-> << >>,
                 pz |-> << >>, nz |-> << >>, projections |-> << >>]

\* The array `&[&uv_box.px, &uv_box.nx, ...]` handed to make_seam.
Faces(box) == << box.px, box.nx, box.py, box.ny, box.pz, box.nz >>

\* One iteration of the loop of generate_uv_box, for valid indices.
BoxPush(box, i, a, b, c) ==
    LET n == Cross(Sub3(b, a), Sub3(c, a))
        cls == classify_plane(n)
        yx(v) == << v[2], v[1] >>
        xy(v) == << v[1], v[2] >>
        xz(v) == << v[1], v[3] >>
        zx(v) == << v[3], v[1] >>
        zy(v) == << v[3], v[2] >>
        yz(v) == << v[2], v[3] >>
        proj(p(_)) == Append(box.projections, << p(a), p(b), p(c) >>)
    IN  CASE cls = "XY" /\ n[3] < 0 ->
               [box EXCEPT !.nz = Append(@, i), !.projections = proj(yx)]
          [] cls = "XY" /\ ~(n[3] < 0) ->
               [box EXCEPT !.pz = Append(@, i), !.projections = proj(xy)]
          [] cls = "XZ" /\ n[2] < 0 ->
               [box EXCEPT !.ny = Append(@, i), !.projections = proj(xz)]
          [] cls = "XZ" /\ ~(n[2] < 0) ->
               [box EXCEPT !.py = Append(@, i), !.projections = proj(zx)]
          [] cls = "YZ" /\ n[1] < 0 ->
               [box EXCEPT !.nx = Append(@, i), !.projections = proj(zy)]
          [] cls = "YZ" /\ ~(n[1] < 0) ->
               [box EXCEPT !.px = Append(@, i), !.projections = proj(yz)]

RECURSIVE BoxLoop(_, _, _, _)
BoxLoop(vs, ts, i, box) ==
    IF i >= Len(ts) THEN Some(box)
    ELSE LET triangle == At(ts, i) IN
         IF \E k \in 1..3 : triangle[k] >= Len(vs) THEN None
         ELSE BoxLoop(vs, ts, i + 1,
                      BoxPush(box, i, At(vs, triangle[1]), At(vs, triangle[2]),
                              At(vs, triangle[3])))

generate_uv_box_strict(vs, ts) ==
    IF \E i \in 1..Len(ts) : \E k \in 1..3 : ts[i][k] + 1 >= Len(vs)
    THEN None
    ELSE BoxLoop(vs, ts, 0, UvBoxDefault)

generate_uv_box(vs, ts) == BoxLoop(vs, ts, 0, UvBoxDefault)

(***************************************************************************)
(* Seam splitting: face_vs_face and make_seam.  The mutable state is the   *)
(* record st = [vertices, triangles, additional_vertices].                 *)
(***************************************************************************)
\* The body of 'outer_loop for corner k of triangle triangle_index.
SplitCorner_no_record(st, triangle_index, k, other_triangle) ==
    LET vertex_index == At(st.triangles, triangle_index)[k] IN
    IF \E j \in 1..3 : other_triangle[j] = vertex_index
    THEN [st EXCEPT
            !.triangles = [@ EXCEPT ![triangle_index + 1][k] = Len(st.vertices)],
            !.vertices = Append(@, At(st.vertices, vertex_index))]
    ELSE st

SplitCorner_push_clone(st, triangle_index, k, other_triangle) ==
    LET vertex_index == At(st.triangles, triangle_index)[k] IN
    IF \E j \in 1..3 : other_triangle[j] = vertex_index
    THEN [additional_vertices |-> Append(st.additional_vertices, Len(st.vertices)),
          triangles |-> [st.triangles EXCEPT
                            ![triangle_index + 1][k] = Len(st.vertices)],
          vertices |-> Append(st.vertices, At(st.vertices, vertex_index))]
    ELSE st

SplitCorner(st, triangle_index, k, other_triangle) ==
    LET vertex_index == At(st.triangles, triangle_index)[k] IN
    IF \E j \in 1..3 : other_triangle[j] = vertex_index
    THEN \* other_vertex_index = vertex_index for the first matching j
         [additional_vertices |-> Append(st.additional_vertices, vertex_index),
          triangles |-> [st.triangles EXCEPT
                            ![triangle_index + 1][k] = Len(st.vertices)],
          vertices |-> Append(st.vertices, At(st.vertices, vertex_index))]
    ELSE st

\* `for vertex_index in triangles[*triangle_index].iter_mut()`
SplitTriangle(st, triangle_index, other_triangle) ==
    SplitCorner(SplitCorner(SplitCorner(st, triangle_index, 1, other_triangle),
                            triangle_index, 2, other_triangle),
                triangle_index, 3, other_triangle)

\* `for triangle_index in face_triangles.iter()`, from position p on
RECURSIVE SplitFace(_, _, _, _)
SplitFace(st, face_triangles, p, other_triangle) ==
    IF p > Len(face_triangles) THEN st
    ELSE SplitFace(SplitTriangle(st, face_triangles[p], other_triangle),
                   face_triangles, p + 1, other_triangle)

\* `for other_triangle_index in other_face_triangles.iter()`, from position q on
RECURSIVE FaceVsFaceLoop(_, _, _, _)
FaceVsFaceLoop(st, face_triangles, other_face_triangles, q) ==
    IF q > Len(other_face_triangles) THEN st
    ELSE LET other_triangle == At(st.triangles, other_face_triangles[q]) IN
         FaceVsFaceLoop(SplitFace(st, face_triangles, 1, other_triangle),
                        face_triangles, other_face_triangles, q + 1)

\* face_vs_face with the first triangle of the other face left out.
face_vs_face_skip_first(st, face_triangles, other_face_triangles) ==
    FaceVsFaceLoop(st, face_triangles, other_face_triangles, 2)

face_vs_face(st, face_triangles, other_face_triangles) ==
    FaceVsFaceLoop(st, face_triangles, other_face_triangles, 1)

\* The loop of make_seam with the test `face_index >= current_face`.
RECURSIVE MakeSeamLoop_earlier_only(_, _, _, _)
MakeSeamLoop_earlier_only(st, current_face, faces, f) ==
    IF f >= Len(faces) THEN st
    ELSE IF f >= current_face
         THEN MakeSeamLoop_earlier_only(st, current_face, faces, f + 1)
         ELSE MakeSeamLoop_earlier_only(
                  face_vs_face(st, At(faces, current_face), At(faces, f)),
                  current_face, faces, f + 1)

\* `for (face_index, &other_face_triangles) in faces.iter().enumerate()`
RECURSIVE MakeSeamLoop(_, _, _, _)
MakeSeamLoop(st, current_face, faces, f) ==
    IF f >= Len(faces) THEN st
    ELSE IF f = current_face
         THEN MakeSeamLoop(st, current_face, faces, f + 1)
         ELSE MakeSeamLoop(face_vs_face(st, At(faces, current_face), At(faces, f)),
                           current_face, faces, f + 1)

make_seam_earlier_only(st, current_face, faces) ==
    MakeSeamLoop_earlier_only(st, current_face, faces, 0)

make_seam(st, current_face, faces) == MakeSeamLoop(st, current_face, faces, 0)

(***************************************************************************)
(* UvMesh and step 2 of generate_uv_meshes: the search for islands.        *)
(***************************************************************************)
UvMeshNew(first_triangle) ==
    [triangles |-> << first_triangle >>,
     uv_max |-> << -F32_MAX, -F32_MAX >>,
     uv_min |-> << F32_MAX, F32_MAX >>]

width(mesh) == mesh.uv_max[1] - mesh.uv_min[1]
height(mesh) == mesh.uv_max[2] - mesh.uv_min[2]
area(mesh) == width(mesh) * height(mesh)

\* The test of 'vertex_loop: some vertex index of one is a vertex index of the other.
SharesVertex(triangle, other_triangle) ==
    \E k \in 1..3 : \E j \in 1..3 : triangle[k] = other_triangle[j]

\* `for (other_triangle_index, other_triangle) in triangles.iter().enumerate()`,
\* from index o on.  g = [mesh_triangles, removed_triangles].
RECURSIVE AbsorbLoop(_, _, _, _)
AbsorbLoop(g, ts, triangle, o) ==
    IF o >= Len(ts) THEN g
    ELSE IF ~At(g.removed_triangles, o) /\ SharesVertex(triangle, At(ts, o))
         THEN AbsorbLoop([mesh_triangles |-> Append(g.mesh_triangles, o),
                          removed_triangles |->
                              [g.removed_triangles EXCEPT ![o + 1] = TRUE]],
                         ts, triangle, o + 1)
         ELSE AbsorbLoop(g, ts, triangle, o + 1)

\* The search with `last_triangle` never advanced: only the triangle at position
\* i is compared with the others.
GrowLoop_seed_only(g, ts, i) ==
    AbsorbLoop(g, ts, At(ts, At(g.mesh_triangles, i)), 0)

\* `while i < last_triangle`; last_triangle is the length of mesh.triangles.
RECURSIVE GrowLoop(_, _, _)
GrowLoop(g, ts, i) ==
    IF i >= Len(g.mesh_triangles) THEN g
    ELSE GrowLoop(AbsorbLoop(g, ts, At(ts, At(g.mesh_triangles, i)), 0), ts, i + 1)

\* "Calculate bounds", from position p of mesh.triangles on.
RECURSIVE CalculateBounds(_, _, _)
CalculateBounds(mesh, projections, p) ==
    IF p > Len(mesh.triangles) THEN mesh
    ELSE LET abc == At(projections, mesh.triangles[p]) IN
         CalculateBounds(
             [mesh EXCEPT
                !.uv_min = Inf2(Inf2(Inf2(abc[1], abc[2]), abc[3]), mesh.uv_min),
                !.uv_max = Sup2(Sup2(Sup2(abc[1], abc[2]), abc[3]), mesh.uv_max)],
             projections, p + 1)

\* The seed of a new island, without `removed_triangles[triangle_index] = true`.
SeedMesh_unmarked(removed_triangles, triangle_index) ==
    [mesh_triangles |-> << triangle_index >>,
     removed_triangles |-> removed_triangles]

\* `UvMesh::new(triangle_index); removed_triangles[triangle_index] = true;`
SeedMesh(removed_triangles, triangle_index) ==
    [mesh_triangles |-> << triangle_index >>,
     removed_triangles |-> [removed_triangles EXCEPT ![triangle_index + 1] = TRUE]]

\* `for triangle_index in 0..triangles.len()`, from index t on.
RECURSIVE MeshesLoop(_, _, _, _, _)
MeshesLoop(ms, removed_triangles, ts, projections, t) ==
    IF t >= Len(ts) THEN ms
    ELSE IF At(removed_triangles, t)
         THEN MeshesLoop(ms, removed_triangles, ts, projections, t + 1)
         ELSE LET g == GrowLoop(SeedMesh(removed_triangles, t), ts, 0)
                  mesh == CalculateBounds(
                              [UvMeshNew(t) EXCEPT !.triangles = g.mesh_triangles],
                              projections, 1)
              IN  MeshesLoop(Append(ms, mesh), g.removed_triangles, ts,
                             projections, t + 1)

\* Step 2 of generate_uv_meshes.
find_meshes(ts, projections) ==
    MeshesLoop(<< >>, [i \in 1..Len(ts) |-> FALSE], ts, projections, 0)

(***************************************************************************)
(* Ordering of the islands.                                                *)
(***************************************************************************)
\* The comparator of the sort: `b.area().partial_cmp(&a.area())`.
SortedByArea(ms) ==
    \A i \in 1..Len(ms) : \A j \in 1..Len(ms) : i < j => area(ms[i]) >= area(ms[j])

\* sort_unstable_by: some reordering that the comparator accepts; the order of
\* elements that compare equal is not specified.
sort_unstable_by(ms) ==
    { s \in { [i \in 1..Len(ms) |-> ms[p[i]]] : p \in Permutations(1..Len(ms)) } :
        SortedByArea(s) }

\* The reordering a stable sort gives: equal elements keep their order.
StableSort(ms) ==
    LET n == Len(ms)
        Before(i, j) == \/ area(ms[i]) > area(ms[j])
                        \/ area(ms[i]) = area(ms[j]) /\ i < j
        rank(i) == 1 + Cardinality({ j \in 1..n : Before(j, i) })
    IN  [r \in 1..n |-> ms[CHOOSE i \in 1..n : rank(i) = r]]

(***************************************************************************)
(* Arithmetic of the scale search.                                         *)
(***************************************************************************)
RECURSIVE SumArea(_, _)
SumArea(ms, p) == IF p > Len(ms) THEN 0 ELSE area(ms[p]) + SumArea(ms, p + 1)

\* f32::sqrt of a, in 1/Unit.
Sqrt(a) == CHOOSE s \in 0..(Unit * (a + 1)) :
               s * s <= a * Unit * Unit /\ (s + 1) * (s + 1) > a * Unit * Unit

\* `area.sqrt() + spacing * meshes.len() as f32`
SquareSide(ms, sp) == Sqrt(SumArea(ms, 1)) + sp * Len(ms)

\* `1.0 / (square_side * empiric_scale)`; 1.0 / 0.0 is infinite.
ScaleOf(side, emp) ==
    IF side * emp = 0 THEN F32_MAX ELSE (Unit * Unit * 100) \div (side * emp)

\* `empiric_scale *= 1.33`
Grow(emp) == Min(EmpiricCap, (emp * EmpiricGrowth) \div 100)

(***************************************************************************)
(* RectPacker (crate rectutils), by its interface: find_free returns a     *)
(* rectangle of the requested size inside the canvas that overlaps no      *)
(* rectangle returned since the last clear, or nothing.  The model places  *)
(* first-fit at the corners left by the rectangles already placed.         *)
(***************************************************************************)
Overlap(r, s) ==
    /\ r.x < s.x + s.w /\ s.x < r.x + r.w
    /\ r.y < s.y + s.h /\ s.y < r.y + r.h

RangeOf(s) == { s[i] : i \in 1..Len(s) }

find_free(placed, w, h) ==
    LET xs == {0} \cup { r.x + r.w : r \in RangeOf(placed) }
        ys == {0} \cup { r.y + r.h : r \in RangeOf(placed) }
        Fits(x, y) ==
            /\ x + w <= Unit /\ y + h <= Unit
            /\ \A r \in RangeOf(placed) : ~Overlap([x |-> x, y |-> y, w |-> w, h |-> h], r)
        free == { c \in ys \X xs : Fits(c[2], c[1]) }
    IN  IF free = {} THEN None
        ELSE LET y0 == CHOOSE y \in { c[1] : c \in free } :
                           \A c \in free : y <= c[1]
                 x0 == CHOOSE x \in { c[2] : c \in { d \in free : d[1] = y0 } } :
                           \A c \in { d \in free : d[1] = y0 } : x <= c[2]
             IN  Some([x |-> x0, y |-> y0, w |-> w, h |-> h])

(***************************************************************************)
(* One iteration of 'try_loop, after `rects.clear()` and `packer.clear()`. *)
(***************************************************************************)
\* `for mesh in meshes.iter()`, from position p on; rs holds the rectangles
\* pushed so far, which are also the content of the packer.
RECURSIVE PackLoop(_, _, _, _, _)
PackLoop(ms, sc, sp, p, rs) ==
    IF p > Len(ms) THEN [rects |-> rs, failed |-> FALSE]
    ELSE LET found == find_free(rs, width(ms[p]) * sc + sp * 2,
                                height(ms[p]) * sc + sp * 2) IN
         IF found.some
         THEN PackLoop(ms, sc, sp, p + 1, Append(rs, found.value))
         ELSE [rects |-> rs, failed |-> TRUE]

(***************************************************************************)
(* The final coordinate write.                                             *)
(***************************************************************************)
SecondTexCoord_no_spacing(projection, mesh, sc, sp, rect) ==
    << (projection[1] - mesh.uv_min[1]) * sc + rect.x,
       (projection[2] - mesh.uv_min[2]) * sc + rect.y >>

\* `(projection - mesh.uv_min).scale(scale) + Vector2::new(spacing, spacing)
\*  + rect.position`
SecondTexCoord(projection, mesh, sc, sp, rect) ==
    << (projection[1] - mesh.uv_min[1]) * sc + sp + rect.x,
       (projection[2] - mesh.uv_min[2]) * sc + sp + rect.y >>

\* The three corners of one triangle; tc is Option<Vec<Vector2>>, None once
\* `get_mut(vertex_index as usize)?` has failed.
RECURSIVE WriteTriangle(_, _, _, _, _, _, _, _)
WriteTriangle(tc, triangle, projection, mesh, sc, sp, rect, k) ==
    IF k > 3 \/ ~tc.some THEN tc
    ELSE IF triangle[k] >= Len(tc.value) THEN None
         ELSE WriteTriangle(
                  Some([tc.value EXCEPT ![triangle[k] + 1] =
                            SecondTexCoord(projection[k], mesh, sc, sp, rect)]),
                  triangle, projection, mesh, sc, sp, rect, k + 1)

\* `for &triangle_index in mesh.triangles.iter()`, from position p on.
RECURSIVE WriteMesh(_, _, _, _, _, _, _, _)
WriteMesh(tc, ts, projections, mesh, sc, sp, rect, p) ==
    IF p > Len(mesh.triangles) \/ ~tc.some THEN tc
    ELSE WriteMesh(WriteTriangle(tc, At(ts, mesh.triangles[p]),
                                 At(projections, mesh.triangles[p]),
                                 mesh, sc, sp, rect, 1),
                   ts, projections, mesh, sc, sp, rect, p + 1)

\* `for (i, rect) in rects.into_iter().enumerate()`, from position i on.
RECURSIVE WriteRects(_, _, _, _, _, _, _, _)
WriteRects(tc, ts, projections, ms, rs, sc, sp, i) ==
    IF i > Len(rs) \/ ~tc.some THEN tc
    ELSE WriteRects(WriteMesh(tc, ts, projections, ms[i], sc, sp, rs[i], 1),
                    ts, projections, ms, rs, sc, sp, i + 1)

\* Lines 404-420 with an unplaced island treated as an error.
write_coords_all_or_nothing(vs, ts, projections, ms, rs, sc, sp) ==
    IF Len(rs) < Len(ms) THEN None
    ELSE WriteRects(Some([i \in 1..Len(vs) |-> << 0, 0 >>]),
                    ts, projections, ms, rs, sc, sp, 1)

\* Lines 404-420: Some(second_tex_coords), or None when an index is out of range.
write_coords(vs, ts, projections, ms, rs, sc, sp) ==
    WriteRects(Some([i \in 1..Len(vs) |-> << 0, 0 >>]),
               ts, projections, ms, rs, sc, sp, 1)

(***************************************************************************)
(* Inputs.                                                                 *)
(***************************************************************************)
\* Positions the input vertices are taken from: a prefix of this list.
VertexTable == << << 0, 0, 0 >>, << 1, 0, 0 >>, << 0, 1, 0 >>, << 0, 0, 1 >>,
                  << 2, 0, 0 >> >>

VertexCounts == { 0, Len(VertexTable) }

\* Index triples the input triangles are taken from.  With the full table:
\* +Z, -Z, +Y, -Y, +X, +X (normal (1,1,1)), -X (normal (-1,-1,-1)),
\* a degenerate triangle (zero normal), a +Z triangle of twice the extent,
\* and two triples with an index one past the end of the table.
TriangleChoices == { << 0, 1, 2 >>, << 0, 2, 1 >>, << 0, 3, 1 >>, << 0, 1, 3 >>,
                     << 0, 2, 3 >>, << 1, 2, 3 >>, << 2, 1, 3 >>, << 0, 0, 1 >>,
                     << 0, 4, 2 >>, << 0, 1, 5 >>, << 5, 0, 1 >> }

\* Values of the spacing argument, in 1/Unit.
Spacings == { 5, 30 }

SurfaceDataPatchDefault ==
    [data_id |-> 0, additional_vertices |-> << >>, triangles |-> << >>,
     second_tex_coords |-> << >>]

(***************************************************************************)
(* generate_uvs as a state machine.                                        *)
(***************************************************************************)
Init ==
    /\ pc = "box"
    /\ in_vertices \in { SubSeq(VertexTable, 1, n) : n \in VertexCounts }
    /\ in_triangles \in UNION { [1..n -> TriangleChoices] : n \in 0..MaxTris }
    /\ spacing \in Spacings
    /\ vertices = in_vertices
    /\ triangles = in_triangles
    /\ uv_box = None
    /\ face_index = 0
    /\ patch = SurfaceDataPatchDefault
    /\ meshes = << >>
    /\ square_side = 0
    /\ rects = << >>
    /\ scale = Unit
    /\ empiric_scale = EmpiricInit
    /\ attempt = 0
    /\ attempt_failed = FALSE
    /\ result = "pending"
    /\ normal = << 0, 0, 0 >>
    /\ class = "XY"

\* Line 361: `let uv_box = generate_uv_box(&vertices, &triangles)?;`
GenerateUvBox ==
    /\ pc = "box"
    /\ uv_box' = generate_uv_box(vertices, triangles)
    /\ IF uv_box'.some
       THEN /\ pc' = "seam"
            /\ result' = result
       ELSE /\ pc' = "done"
            /\ result' = "None"
    /\ UNCHANGED << in_vertices, in_triangles, spacing, vertices, triangles,
                    face_index, patch, meshes, square_side, rects, scale,
                    empiric_scale, attempt, attempt_failed, normal, class >>

\* Lines 285-295: one iteration of `for face_index in 0..6`.
MakeSeam ==
    /\ pc = "seam"
    /\ face_index < FaceCount
    /\ LET st == make_seam([vertices |-> vertices, triangles |-> triangles,
                            additional_vertices |-> patch.additional_vertices],
                           face_index, Faces(uv_box.value))
       IN  /\ vertices' = st.vertices
           /\ triangles' = st.triangles
           /\ patch' = [patch EXCEPT !.additional_vertices = st.additional_vertices]
    /\ face_index' = face_index + 1
    /\ pc' = IF face_index + 1 = FaceCount THEN "islands" ELSE "seam"
    /\ UNCHANGED << in_vertices, in_triangles, spacing, uv_box, meshes, square_side,
                    rects, scale, empiric_scale, attempt, attempt_failed, result,
                    normal, class >>

\* Lines 300-344: the islands.
FindMeshes ==
    /\ pc = "islands"
    /\ meshes' = find_meshes(triangles, uv_box.value.projections)
    /\ pc' = "arrange"
    /\ UNCHANGED << in_vertices, in_triangles, spacing, vertices, triangles, uv_box,
                    face_index, patch, square_side, rects, scale, empiric_scale,
                    attempt, attempt_failed, result, normal, class >>

\* Lines 366-381: area, square_side, the sort and the locals of the search.
Arrange ==
    /\ pc = "arrange"
    /\ square_side' = SquareSide(meshes, spacing)
    /\ \E sorted \in sort_unstable_by(meshes) : meshes' = sorted
    /\ rects' = << >>
    /\ empiric_scale' = EmpiricInit
    /\ scale' = Unit
    /\ attempt' = 0
    /\ pc' = "pack"
    /\ UNCHANGED << in_vertices, in_triangles, spacing, vertices, triangles, uv_box,
                    face_index, patch, attempt_failed, result, normal, class >>

\* Lines 382-402: one iteration of 'try_loop.
TryLoop ==
    /\ pc = "pack"
    /\ attempt < MaxAttempts
    /\ scale' = ScaleOf(square_side, empiric_scale)
    /\ LET out == PackLoop(meshes, scale', spacing, 1, << >>)
       IN  /\ rects' = out.rects
           /\ attempt_failed' = out.failed
           /\ empiric_scale' = IF out.failed THEN Grow(empiric_scale)
                                             ELSE empiric_scale
    /\ attempt' = attempt + 1
    /\ UNCHANGED << pc, in_vertices, in_triangles, spacing, vertices, triangles,
                    uv_box, face_index, patch, meshes, square_side, result,
                    normal, class >>

\* Lines 404-424: the coordinate write and the return.
WriteCoords ==
    /\ pc = "pack"
    /\ attempt = MaxAttempts
    /\ LET tc == write_coords(vertices, triangles, uv_box.value.projections,
                              meshes, rects, scale, spacing)
       IN  IF tc.some
           THEN /\ patch' = [patch EXCEPT !.second_tex_coords = tc.value,
                                          !.triangles = triangles]
                /\ result' = "Some"
           ELSE /\ patch' = patch
                /\ result' = "None"
    /\ pc' = "done"
    /\ UNCHANGED << in_vertices, in_triangles, spacing, vertices, triangles, uv_box,
                    face_index, meshes, square_side, rects, scale, empiric_scale,
                    attempt, attempt_failed, normal, class >>

Next ==
    \/ GenerateUvBox
    \/ MakeSeam
    \/ FindMeshes
    \/ Arrange
    \/ TryLoop
    \/ WriteCoords

Spec == Init /\ [][Next]_vars

(***************************************************************************)
(* generate_uv_box and generate_uv_meshes on their own (lines 361-363): the *)
(* same steps up to the islands, over more triangles.  The extra triple is *)
(* a second degenerate triangle, which shares no vertex with the first.    *)
(***************************************************************************)
SeamTriangleChoices == TriangleChoices \cup { << 4, 4, 2 >> }

InitMeshes ==
    /\ pc = "box"
    /\ in_vertices \in { SubSeq(VertexTable, 1, n) : n \in VertexCounts }
    /\ in_triangles \in UNION { [1..n -> SeamTriangleChoices] : n \in 0..MaxSeamTris }
    /\ spacing \in Spacings
    /\ vertices = in_vertices
    /\ triangles = in_triangles
    /\ uv_box = None
    /\ face_index = 0
    /\ patch = SurfaceDataPatchDefault
    /\ meshes = << >>
    /\ square_side = 0
    /\ rects = << >>
    /\ scale = Unit
    /\ empiric_scale = EmpiricInit
    /\ attempt = 0
    /\ attempt_failed = FALSE
    /\ result = "pending"
    /\ normal = << 0, 0, 0 >>
    /\ class = "XY"

NextMeshes ==
    \/ GenerateUvBox
    \/ MakeSeam
    \/ FindMeshes

SpecMeshes == InitMeshes /\ [][NextMeshes]_vars

(***************************************************************************)
(* classify_plane on its own: the normal is any vector of the bounded box. *)
(***************************************************************************)
InitClassify ==
    /\ pc = "classify"
    /\ normal \in (-MaxNormal..MaxNormal) \X (-MaxNormal..MaxNormal)
                      \X (-MaxNormal..MaxNormal)
    /\ class = "none"
    /\ in_vertices = << >>
    /\ in_triangles = << >>
    /\ spacing = 0
    /\ vertices = << >>
    /\ triangles = << >>
    /\ uv_box = None
    /\ face_index = 0
    /\ patch = SurfaceDataPatchDefault
    /\ meshes = << >>
    /\ square_side = 0
    /\ rects = << >>
    /\ scale = Unit
    /\ empiric_scale = EmpiricInit
    /\ attempt = 0
    /\ attempt_failed = FALSE
    /\ result = "pending"

Classify ==
    /\ pc = "classify"
    /\ class' = classify_plane(normal)
    /\ pc' = "classified"
    /\ UNCHANGED << in_vertices, in_triangles, spacing, vertices, triangles, uv_box,
                    face_index, patch, meshes, square_side, rects, scale,
                    empiric_scale, attempt, attempt_failed, result, normal >>

NextClassify == Classify

SpecClassify == InitClassify /\ [][NextClassify]_vars

(***************************************************************************)
(* Properties.                                                             *)
(***************************************************************************)
\* Every index of every input triangle is below the number of input vertices.
InputValid ==
    \A i \in 1..Len(in_triangles) : \A k \in 1..3 :
        in_triangles[i][k] < Len(in_vertices)

\* The seams have been made.  'try_loop changes neither the triangles nor the
\* vertices, the islands or the patch, so its iterations are left out.
AfterSeams == uv_box.some /\ pc \in { "islands", "arrange", "done" }

\* The islands have been found (iterations of 'try_loop left out as above).
AfterIslands == uv_box.some /\ pc \in { "arrange", "done" }

\* Index (0..5) of the bucket of uv_box that holds triangle t.
FaceOf(t) ==
    CHOOSE f \in 0..(FaceCount - 1) :
        \E p \in 1..Len(At(Faces(uv_box.value), f)) :
            At(Faces(uv_box.value), f)[p] = t

TriangleIndices == 0..(Len(triangles) - 1)

\* C1: generate_uvs returns None exactly when some input triangle has an index
\* that is not below the number of input vertices; with valid indices it returns
\* a patch, and a failed call leaves no part of a patch behind.
C1_NoneIffIndexOutOfRange ==
    pc = "done" =>
        /\ result \in { "None", "Some" }
        /\ (result = "None") <=> ~InputValid
        /\ result = "None" => patch = SurfaceDataPatchDefault

C1_Witness ==
    /\ pc = "done"
    /\ result = "None"
    /\ Len(in_triangles) = 2
    /\ \A k \in 1..3 : in_triangles[1][k] < Len(in_vertices)
    /\ \E k \in 1..3 : in_triangles[2][k] = Len(in_vertices)

\* C2: on success second_tex_coords has one entry per input vertex plus one per
\* additional vertex, and every index of the returned triangles is below that.
C2_PatchConsistent ==
    result = "Some" =>
        /\ Len(patch.second_tex_coords) =
               Len(in_vertices) + Len(patch.additional_vertices)
        /\ Len(patch.triangles) = Len(in_triangles)
        /\ \A i \in 1..Len(patch.triangles) : \A k \in 1..3 :
               /\ patch.triangles[i][k] >= 0
               /\ patch.triangles[i][k] < Len(patch.second_tex_coords)

C2_Witness ==
    /\ result = "Some"
    /\ Len(patch.additional_vertices) >= 3
    /\ \E i \in 1..Len(patch.triangles) : \E k \in 1..3 :
           patch.triangles[i][k] >= Len(in_vertices)

\* C3: once make_seam has run for all six faces, no vertex index is used both by
\* a triangle of one face and by a triangle of another face.
C3_NoVertexAcrossFaces ==
    AfterSeams =>
        \A t1 \in TriangleIndices : \A t2 \in TriangleIndices :
            FaceOf(t1) # FaceOf(t2) =>
                ~SharesVertex(At(triangles, t1), At(triangles, t2))

C3_Witness ==
    /\ pc = "islands"
    /\ Len(triangles) = 2
    /\ FaceOf(0) # FaceOf(1)
    /\ SharesVertex(At(in_triangles, 0), At(in_triangles, 1))
    /\ Len(patch.additional_vertices) > 0

\* C4: the islands partition the triangle indices: every index 0..count-1 is in
\* the triangle list of exactly one island, exactly once, and nothing else is.
C4_IslandsPartition ==
    AfterIslands =>
        /\ \A t \in TriangleIndices :
               Cardinality({ mp \in UNION { { << m, p >> :
                                                 p \in 1..Len(meshes[m].triangles) } :
                                             m \in 1..Len(meshes) } :
                                 meshes[mp[1]].triangles[mp[2]] = t }) = 1
        /\ \A m \in 1..Len(meshes) : \A p \in 1..Len(meshes[m].triangles) :
               meshes[m].triangles[p] \in TriangleIndices

C4_Witness ==
    /\ pc = "arrange"
    /\ \E m \in 1..Len(meshes) : Len(meshes[m].triangles) = 2

\* C5: every entry of additional_vertices is the index of an input vertex, the
\* k-th entry is the source of the vertex at index (input count + k), the clone
\* has the position of its source, and the input vertices stay where they were.
C5_AdditionalVerticesAreSources ==
    (uv_box.some /\ pc \in { "seam", "islands", "arrange", "done" }) =>
        /\ Len(vertices) = Len(in_vertices) + Len(patch.additional_vertices)
        /\ SubSeq(vertices, 1, Len(in_vertices)) = in_vertices
        /\ \A k \in 1..Len(patch.additional_vertices) :
               /\ patch.additional_vertices[k] >= 0
               /\ patch.additional_vertices[k] < Len(in_vertices)
               /\ vertices[Len(in_vertices) + k] =
                      At(in_vertices, patch.additional_vertices[k])

C5_Witness ==
    /\ result = "Some"
    /\ Len(patch.additional_vertices) >= 2
    /\ \E k \in 1..Len(patch.additional_vertices) :
           patch.additional_vertices[k] # patch.additional_vertices[1]

\* Largest absolute value of a component of the classified normal.
Longest == Max(Max(Abs(normal[1]), Abs(normal[2])), Abs(normal[3]))

\* Absolute value of the component along the axis that the class drops.
ChosenMagnitude ==
    CASE class = "YZ" -> Abs(normal[1])
      [] class = "XZ" -> Abs(normal[2])
      [] class = "XY" -> Abs(normal[3])

\* C6 as stated: the axis of the largest absolute component is picked, and ties
\* go to Z over Y over X.
C6_TiesZOverYOverX ==
    pc = "classified" =>
        /\ ChosenMagnitude = Longest
        /\ Abs(normal[3]) = Longest => class = "XY"
        /\ (Abs(normal[2]) = Abs(normal[1]) /\ Abs(normal[1]) > Abs(normal[3]))
               => class = "XZ"

\* C6 amended: the axis of the largest absolute component is picked, and ties
\* go to X over Y over Z; the zero normal gives the XY class.
C6_TiesXOverYOverZ ==
    pc = "classified" =>
        /\ ChosenMagnitude = Longest
        /\ (Longest > 0 /\ Abs(normal[1]) = Longest) => class = "YZ"
        /\ (Abs(normal[2]) = Longest /\ Abs(normal[1]) < Longest) => class = "XZ"
        /\ (Abs(normal[1]) < Longest /\ Abs(normal[2]) < Longest) => class = "XY"
        /\ Longest = 0 => class = "XY"

C6_Witness ==
    /\ pc = "classified"
    /\ Abs(normal[1]) = Abs(normal[2])
    /\ Abs(normal[2]) = Abs(normal[3])
    /\ Abs(normal[3]) > 0
    /\ class = "YZ"

\* The texture coordinates written for island i (position in meshes): one per
\* corner of each of its triangles.
IslandCoords(i) ==
    { At(patch.second_tex_coords, At(triangles, meshes[i].triangles[p])[k]) :
          p \in 1..Len(meshes[i].triangles), k \in 1..3 }

\* What the packer interface promises for the rectangles it has returned.
RectsPacked ==
    /\ \A i \in 1..Len(rects) :
           /\ rects[i].x >= 0 /\ rects[i].x + rects[i].w <= Unit
           /\ rects[i].y >= 0 /\ rects[i].y + rects[i].h <= Unit
    /\ \A i \in 1..Len(rects) : \A j \in 1..Len(rects) :
           i # j => ~Overlap(rects[i], rects[j])

\* C7: every coordinate written for an island that has a rectangle lies in the
\* rectangle, at least `spacing` inside each of its edges; hence, for rectangles
\* that do not overlap inside the unit square, the coordinates are in the unit
\* square and those of different islands are at least `spacing` apart.
C7_CoordsInsideRectangle ==
    result = "Some" =>
        /\ \A i \in 1..Len(rects) : \A c \in IslandCoords(i) :
               /\ rects[i].x + spacing <= c[1]
               /\ c[1] <= rects[i].x + rects[i].w - spacing
               /\ rects[i].y + spacing <= c[2]
               /\ c[2] <= rects[i].y + rects[i].h - spacing
        /\ RectsPacked =>
               /\ \A i \in 1..Len(rects) : \A c \in IslandCoords(i) :
                      /\ 0 <= c[1] /\ c[1] <= Unit
                      /\ 0 <= c[2] /\ c[2] <= Unit
               /\ \A i \in 1..Len(rects) : \A j \in 1..Len(rects) :
                      i # j =>
                          \A c \in IslandCoords(i) : \A d \in IslandCoords(j) :
                              Max(Abs(c[1] - d[1]), Abs(c[2] - d[2])) >= spacing

C7_Witness ==
    /\ result = "Some"
    /\ Len(rects) = 2
    /\ RectsPacked
    /\ scale > 0
    /\ \E c \in IslandCoords(1) : \E d \in IslandCoords(1) : c[1] # d[1]
    /\ \E c \in IslandCoords(2) : \E d \in IslandCoords(2) : c[2] # d[2]

\* C8: the search never runs more than 100 attempts; when the attempts end with
\* an island unplaced the call still returns a patch, and every vertex of an
\* island without a rectangle has the coordinate (0, 0).
C8_SearchBoundedUnplacedZero ==
    /\ attempt <= MaxAttempts
    /\ (pc = "done" /\ uv_box.some) => attempt = MaxAttempts
    /\ (pc = "done" /\ uv_box.some /\ attempt_failed) =>
           /\ result = "Some"
           /\ Len(rects) < Len(meshes)
           /\ \A i \in (Len(rects) + 1)..Len(meshes) :
                  \A c \in IslandCoords(i) : c = << 0, 0 >>

C8_Witness ==
    /\ pc = "done"
    /\ result = "Some"
    /\ attempt = MaxAttempts
    /\ attempt_failed
    /\ Len(meshes) = 2
    /\ Len(rects) = 1

\* C9 as stated: the rectangles used by the coordinate write never come from an
\* attempt in which an island was not placed; such an attempt leaves none.
C9_FailedAttemptLeavesNoRects ==
    (pc = "done" /\ result = "Some" /\ attempt_failed) =>
        /\ rects = << >>
        /\ \A v \in 1..Len(patch.second_tex_coords) :
               patch.second_tex_coords[v] = << 0, 0 >>

IslandSet(m) == { meshes[m].triangles[p] : p \in 1..Len(meshes[m].triangles) }

\* The triangles of `within` linked to a triangle of `reached` by a chain of
\* triangles of `within` in which neighbours share a vertex index.
RECURSIVE Linked(_, _)
Linked(reached, within) ==
    LET more == { t \in within \ reached :
                      \E r \in reached :
                          SharesVertex(At(triangles, r), At(triangles, t)) }
    IN  IF more = {} THEN reached ELSE Linked(reached \cup more, within)

\* C11: every island is a maximal connected set of triangles under shared vertex
\* indices: its triangles are all linked to its first triangle inside the
\* island, no vertex index is used by triangles of two islands, and its first
\* triangle is the lowest of its triangle indices.
C11_IslandsAreComponents ==
    AfterIslands =>
        /\ \A m \in 1..Len(meshes) :
               /\ Linked({ meshes[m].triangles[1] }, IslandSet(m)) = IslandSet(m)
               /\ \A t \in IslandSet(m) : meshes[m].triangles[1] <= t
        /\ \A m1 \in 1..Len(meshes) : \A m2 \in 1..Len(meshes) :
               m1 # m2 =>
                   \A t1 \in IslandSet(m1) : \A t2 \in IslandSet(m2) :
                       ~SharesVertex(At(triangles, t1), At(triangles, t2))

C11_Witness ==
    /\ pc = "arrange"
    /\ Len(meshes) = 1
    /\ Len(meshes[1].triangles) = 3
    /\ \E t \in IslandSet(1) :
           ~SharesVertex(At(triangles, meshes[1].triangles[1]), At(triangles, t))

\* A corner is a vertex occurrence: triangle index and position 1..3 in it.
Corners == { << t, k >> : t \in TriangleIndices, k \in 1..3 }

InputIndex(c) == At(in_triangles, c[1])[c[2]]
FinalIndex(c) == At(triangles, c[1])[c[2]]

\* The input index of corner c is used by an input triangle of the face f.
UsedOnFace(c, f) ==
    \E t \in TriangleIndices :
        /\ FaceOf(t) = f
        /\ \E j \in 1..3 : At(in_triangles, t)[j] = InputIndex(c)

\* ... by a triangle of a face after the face of c, in the order of Faces.
UsedOnLaterFace(c) ==
    \E f \in 0..(FaceCount - 1) : f > FaceOf(c[1]) /\ UsedOnFace(c, f)

\* ... by a triangle of a face before the face of c.
UsedOnEarlierFace(c) ==
    \E f \in 0..(FaceCount - 1) : f < FaceOf(c[1]) /\ UsedOnFace(c, f)

\* C12: with the faces taken in the order +X, -X, +Y, -Y, +Z, -Z, a corner gets
\* a clone index exactly when its input index is also used by a triangle of a
\* later face; a clone index is in exactly one corner and there is one clone per
\* such corner; every other corner keeps its input index.
C12_CloneIffUsedOnLaterFace ==
    AfterSeams =>
        /\ \A c \in Corners :
               IF UsedOnLaterFace(c)
               THEN /\ FinalIndex(c) >= Len(in_vertices)
                    /\ FinalIndex(c) < Len(vertices)
                    /\ At(patch.additional_vertices,
                          FinalIndex(c) - Len(in_vertices)) = InputIndex(c)
                    /\ \A d \in Corners : FinalIndex(d) = FinalIndex(c) => d = c
               ELSE FinalIndex(c) = InputIndex(c)
        /\ Len(patch.additional_vertices) =
               Cardinality({ c \in Corners : UsedOnLaterFace(c) })

C12_Witness ==
    /\ pc = "islands"
    /\ Len(triangles) = 3
    /\ \E c \in Corners : FinalIndex(c) >= Len(in_vertices)
    /\ \E c \in Corners :
           /\ UsedOnEarlierFace(c)
           /\ ~UsedOnLaterFace(c)
           /\ FinalIndex(c) = InputIndex(c)
    /\ \E c \in Corners : \E d \in Corners :
           /\ c[1] # d[1]
           /\ FaceOf(c[1]) = FaceOf(d[1])
           /\ InputIndex(c) = InputIndex(d)
           /\ FinalIndex(c) = FinalIndex(d)

====
